---- MODULE Spec2Model ----
(***************************************************************************)
(* SASRec (src/SASRec-gaudi/model.py): the sequence encoder log2feats, the *)
(* scoring heads forward / predict, and the embedding debug harness        *)
(* (debug_embedding, back_state, gradient hooks).                          *)
(*                                                                         *)
(* Tensors are sequences: seqs[b][l][c] is batch row b, position l,        *)
(* hidden component c (1-based; position l is the code's position l-1).   *)
(* Real arithmetic is carried out on integers: every kernel keeps the      *)
(* data dependencies of the torch kernel it stands for (which positions    *)
(* and components an output element reads), and multiplication by a mask   *)
(* is exact.                                                               *)
(***************************************************************************)
EXTENDS Integers, Sequences, FiniteSets, TLC

VARIABLES
    built,           \* "new" | "ok" | "failed": outcome of SASRec.__init__
    nn_parameter,    \* args.nn_parameter
    num_blocks,      \* args.num_blocks
    hidden_units,    \* args.hidden_units
    num_heads,       \* args.num_heads
    dev_exact,       \* whether the device's embedding gather agrees with the CPU's
    back_state,      \* self.back_state
    attrs,           \* the per-call-site length lists set with setattr
    weight_hooks,    \* hooks registered on item_emb.weight / pos_emb.weight
    out_hooks,       \* hooks registered on lookup outputs of the latest graph
    stdout,          \* what the harness printed
    pc,              \* position inside log2feats (stepwise specification)
    log_seqs,        \* argument of the running log2feats call
    seqs,            \* local seqs of log2feats
    timeline_mask,   \* local timeline_mask
    attention_mask,  \* local attention_mask
    blk,             \* loop variable i of log2feats
    attended,        \* per block run, the key positions given attention weight
    log_feats,       \* value returned by the last log2feats call
    ncalls,          \* number of entry-point calls made so far
    ret              \* outcome of the last entry-point call

vars == <<built, nn_parameter, num_blocks, hidden_units, num_heads, dev_exact,
          back_state, attrs, weight_hooks, out_hooks, stdout, pc, log_seqs,
          seqs, timeline_mask, attention_mask, blk, attended, log_feats,
          ncalls, ret>>

cfgVars == <<nn_parameter, num_blocks, hidden_units, num_heads, dev_exact>>
harnessVars == <<back_state, attrs, weight_hooks, out_hooks, stdout>>
encVars == <<pc, log_seqs, seqs, timeline_mask, attention_mask, blk, attended,
             log_feats>>

\* ------------------------------------------------------------------ bounds
ItemNum == 2
MaxLen == 2
MaxBatch == 2
MaxBlocks == 2
MaxCalls == 2

None == "None"

\* ------------------------------------------------------- tensor helpers
\* A sequence given as a function is turned into a tuple, so that it is
\* computed once.
Tup(s) == s \o <<>>

RECURSIVE SumSeq(_)
SumSeq(s) == IF s = <<>> THEN 0 ELSE s[1] + SumSeq(Tail(s))

Range(s) == {s[k] : k \in DOMAIN s}

Abs(x) == IF x < 0 THEN -x ELSE x

MaxOf(S) == CHOOSE m \in S : \A x \in S : x <= m

\* n ** 0.5, rounded down (exact for hidden_units = 4)
ISqrt(n) == CHOOSE r \in 0..n : r * r <= n /\ (r + 1) * (r + 1) > n

\* tensor.transpose(0, 1) of a tensor with at least two dimensions
Transpose01(t) ==
    Tup([j \in 1..Len(t[1]) |-> Tup([k \in 1..Len(t) |-> t[k][j]])])

\* tensor.transpose(-1, -2) of a 3-dimensional tensor
TransposeLast(t) == Tup([b \in 1..Len(t) |-> Transpose01(t[b])])

\* ------------------------------------------------------------- weights
\* Trained parameters: fixed small integers, different per layer (tag),
\* row and column. Row 0 of the item table is not zero: __init__ overwrites
\* the padding row with normal_(0, 1).
Weight(tag, r, c) == ((tag + 2 * r + c + r * c) % 3) - 1
Bias(tag, r) == ((tag + r) % 3) - 1
ItemRow(id) == Tup([c \in 1..hidden_units |-> (((id + 1) * c + id) % 4) - 1])
PosRow(p) == Tup([c \in 1..hidden_units |-> (((p + 2) * c + 1) % 3) - 1])

\* y = W x + b over the hidden dimension
Linear(tag, x) ==
    Tup([r \in 1..Len(x) |->
            SumSeq(Tup([c \in 1..Len(x) |-> Weight(tag, r, c) * x[c]]))
            + Bias(tag, r)])

\* torch.nn.LayerNorm(hidden_units) on one position: centre, divide by the
\* spread, scale and shift.
LayerNorm(tag, x) ==
    LET n == Len(x)
        s == SumSeq(x)
        cen == Tup([c \in 1..n |-> n * x[c] - s])
        den == 1 + MaxOf({Abs(cen[c]) : c \in 1..n})
    IN  Tup([c \in 1..n |-> ((4 * cen[c]) \div den) + Bias(tag, c)])

LayerNorm3(tag, t) ==
    Tup([a \in 1..Len(t) |->
            Tup([b \in 1..Len(t[a]) |-> LayerNorm(tag, t[a][b])])])

\* torch.nn.Conv1d(hidden, hidden, kernel_size=1) on a (batch, hidden, len)
\* tensor: each position's channels are mixed, positions are not.
Conv1d(tag, t) ==
    Tup([b \in 1..Len(t) |->
        Tup([o \in 1..Len(t[b]) |->
            Tup([l \in 1..Len(t[b][o]) |->
                SumSeq(Tup([c \in 1..Len(t[b]) |->
                        Weight(tag, o, c) * t[b][c][l]])) + Bias(tag, o)])])])

ReLU(t) ==
    Tup([a \in 1..Len(t) |->
        Tup([b \in 1..Len(t[a]) |->
            Tup([c \in 1..Len(t[a][b]) |->
                IF t[a][b][c] > 0 THEN t[a][b][c] ELSE 0])])])

Add3(t, u) ==
    Tup([a \in 1..Len(t) |->
        Tup([b \in 1..Len(t[a]) |->
            Tup([c \in 1..Len(t[a][b]) |-> t[a][b][c] + u[a][b][c]])])])

\* e ** s, positive and increasing (base 2, saturated)
ExpS(s) == IF s <= 0 THEN 1 ELSE IF s >= 3 THEN 8 ELSE 2 ^ s

\* torch.nn.MultiheadAttention.forward(query, key, value, attn_mask) on
\* (len, batch, hidden) tensors, key_padding_mask the (batch, len) mask or
\* None. A TRUE entry of a mask disallows the key. Returns the output and,
\* per batch row and query, the keys that received attention weight.
KeysOf(S, n, i, attn_mask, key_padding_mask) ==
    {j \in 1..S : /\ ~attn_mask[i][j]
                  /\ (key_padding_mask = None \/ ~key_padding_mask[n][j])}

MultiheadAttention(base, query, key, value, attn_mask, key_padding_mask) ==
    LET S == Len(query)
        N == Len(query[1])
        E == Len(query[1][1])
        d == E \div num_heads
        q == Tup([s \in 1..S |-> Tup([n \in 1..N |-> Linear(base + 1, query[s][n])])])
        k == Tup([s \in 1..S |-> Tup([n \in 1..N |-> Linear(base + 2, key[s][n])])])
        v == Tup([s \in 1..S |-> Tup([n \in 1..N |-> Linear(base + 3, value[s][n])])])
        HeadOf(c) == (c - 1) \div d
        Score(n, i, j, h) ==
            SumSeq(Tup([c \in 1..d |-> q[i][n][h * d + c] * k[j][n][h * d + c]]))
              \div ISqrt(d)
        w == Tup([n \in 1..N |-> Tup([i \in 1..S |-> Tup([j \in 1..S |->
                Tup([h \in 1..num_heads |-> ExpS(Score(n, i, j, h - 1))])])])])
        Keys(n, i) == KeysOf(S, n, i, attn_mask, key_padding_mask)
        RECURSIVE Wsum(_, _, _, _, _)
        Wsum(n, i, h, c, js) ==
            IF js = {} THEN <<0, 0>>
            ELSE LET j == CHOOSE x \in js : TRUE
                     rest == Wsum(n, i, h, c, js \ {j})
                 IN  <<rest[1] + w[n][i][j][h] * v[j][n][c], rest[2] + w[n][i][j][h]>>
        HeadOut(n, i, c) ==
            LET p == Wsum(n, i, HeadOf(c) + 1, c, Keys(n, i))
            IN  IF p[2] = 0 THEN 0 ELSE p[1] \div p[2]
        o == Tup([s \in 1..S |-> Tup([n \in 1..N |->
                Tup([c \in 1..E |-> HeadOut(n, s, c)])])])
    IN  [out |-> Tup([s \in 1..S |-> Tup([n \in 1..N |-> Linear(base + 4, o[s][n])])]),
         keys |-> Tup([n \in 1..N |-> Tup([i \in 1..S |-> Keys(n, i)])])]

\* PointWiseFeedForward.forward (dropout_rate = 0)
PointWiseFeedForward(base, inputs) ==
    LET h1 == Conv1d(base + 1, TransposeLast(inputs))
        h2 == Conv1d(base + 2, ReLU(h1))
    IN  Add3(TransposeLast(h2), inputs)

Scale3(t, f) ==
    Tup([a \in 1..Len(t) |->
        Tup([b \in 1..Len(t[a]) |->
            Tup([c \in 1..Len(t[a][b]) |-> t[a][b][c] * f])])])

\* --------------------------------------------------------- embedding store
\* Number of rows of a table (lines 35-36 and 39-42).
Rows(emb) == IF emb = "item_emb" THEN ItemNum + 1 ELSE MaxLen

Row(emb, id) == IF emb = "item_emb" THEN ItemRow(id) ELSE PosRow(id)

\* The gather as the device computes it: exact, or (dev_exact = FALSE) off
\* in the table's last row, which is the divergence the harness looks for.
DevRow(emb, id) ==
    IF dev_exact \/ id # Rows(emb) - 1 THEN Row(emb, id)
    ELSE [Row(emb, id) EXCEPT ![1] = @ + 1]

Ids(v) == UNION {Range(v[b]) : b \in DOMAIN v}

\* torch.nn.Embedding.__call__: an id outside 0 .. rows-1 raises IndexError.
EmbeddingCall(emb, v) ==
    IF \A id \in Ids(v) : id \in 0..(Rows(emb) - 1)
    THEN [ok |-> TRUE,
          out |-> Tup([b \in 1..Len(v) |->
                     Tup([l \in 1..Len(v[b]) |-> DevRow(emb, v[b][l])])])]
    ELSE [ok |-> FALSE, out |-> None]

\* Indexing an nn.Parameter with a LongTensor: an id in -rows .. -1 counts
\* from the end, an id outside -rows .. rows-1 raises IndexError.
ParameterIndex(emb, v) ==
    IF \A id \in Ids(v) : id \in (-Rows(emb))..(Rows(emb) - 1)
    THEN [ok |-> TRUE,
          out |-> Tup([b \in 1..Len(v) |->
                     Tup([l \in 1..Len(v[b]) |->
                        DevRow(emb, IF v[b][l] < 0 THEN v[b][l] + Rows(emb)
                                    ELSE v[b][l])])])]
    ELSE [ok |-> FALSE, out |-> None]

\* The CPU duplicate's lookup, state["emb_obj_cpu"](state["input"])
CpuLookup(emb, v) ==
    Tup([b \in 1..Len(v) |-> Tup([l \in 1..Len(v[b]) |-> Row(emb, v[b][l])])])

\* ------------------------------------------------------------ the harness
\* The harness state is passed as a record h with the fields back_state,
\* attrs, weight_hooks, out_hooks and stdout.
Harness == [back_state |-> back_state, attrs |-> attrs,
            weight_hooks |-> weight_hooks, out_hooks |-> out_hooks,
            stdout |-> stdout]

EmptyHarness == [back_state |-> <<>>, attrs |-> <<>>,
                 weight_hooks |-> [item_emb |-> <<>>, pos_emb |-> <<>>],
                 out_hooks |-> <<>>, stdout |-> <<>>]

\* debug_embedding, lines 73-89: the per-call-site list of lengths seen.
\* print_values is TRUE exactly when the attribute did not exist.
TrackLens(h, fname, vname, v) ==
    LET attr == <<fname, vname>>
        print_values == attr \notin DOMAIN h.attrs
        lens == IF print_values THEN <<>> ELSE h.attrs[attr]
        fresh == Len(v) \notin Range(lens)
        lens2 == IF fresh THEN Append(lens, Len(v)) ELSE lens
        out1 == IF fresh
                THEN Append(h.stdout, [msg |-> "len", site |-> attr, n |-> Len(v)])
                ELSE h.stdout
        out2 == IF print_values
                THEN Append(out1, [msg |-> "shape", site |-> attr, n |-> Len(v)])
                ELSE out1
    IN  [h EXCEPT !.attrs = [a \in DOMAIN h.attrs \cup {attr} |->
                                IF a = attr THEN lens2 ELSE h.attrs[a]],
                  !.stdout = out2]

\* debug_embedding, lines 91-93: a new, empty dict at the end of back_state.
\* keys is the set of the dict's keys; a field whose key is absent holds a
\* default. The fields fname and vname are not in the code: they remember
\* which lookup created the record. The tensors input and ref are kept as
\* the outcome cmp of their comparison.
NoGrad == [kind |-> "none", tensor |-> -1, param |-> "none"]

\* Variant: the first lookup of a log2feats call starts the list afresh.
NewRecordReset(h, fname, vname) ==
    [h EXCEPT !.back_state =
        IF fname = "log2feats" /\ vname = "log_seqs"
        THEN <<[fname |-> fname, vname |-> vname, keys |-> {},
                emb_obj_cpu |-> "none", cmp |-> TRUE,
                hook_weight |-> -1, hook_out |-> -1,
                grad_out |-> NoGrad, grad_weight |-> NoGrad]>>
        ELSE Append(@, [fname |-> fname, vname |-> vname,
                        keys |-> {}, emb_obj_cpu |-> "none", cmp |-> TRUE,
                        hook_weight |-> -1, hook_out |-> -1,
                        grad_out |-> NoGrad, grad_weight |-> NoGrad])]

\* self.back_state.append({})
NewRecord(h, fname, vname) ==
    [h EXCEPT !.back_state =
        Append(@, [fname |-> fname, vname |-> vname,
                   keys |-> {}, emb_obj_cpu |-> "none", cmp |-> TRUE,
                   hook_weight |-> -1, hook_out |-> -1,
                   grad_out |-> NoGrad, grad_weight |-> NoGrad])]

\* debug_embedding, lines 95-113: the CPU duplicate, the recomputed lookup
\* and the comparison with the device's result.
\* Variant: the check is skipped when the call-site has a record already.
RefCheckFirstOnly(h, pos, v, emb_obj, out) ==
    LET me == h.back_state[pos + 1]
        seen == \E k \in 1..pos : /\ h.back_state[k].fname = me.fname
                                  /\ h.back_state[k].vname = me.vname
        cmp == (out = CpuLookup(emb_obj, v))
    IN  IF seen THEN h
        ELSE [h EXCEPT !.back_state[pos + 1].keys = @ \cup {"emb_obj_cpu", "input", "ref"},
                       !.back_state[pos + 1].emb_obj_cpu = emb_obj,
                       !.back_state[pos + 1].cmp = cmp,
                       !.stdout = IF cmp THEN @
                                  ELSE Append(@, [msg |-> "cmp", site |-> <<me.fname, me.vname>>,
                                                  n |-> pos])]

\* Lines 95-113 as written: no condition guards them.
RefCheck(h, pos, v, emb_obj, out) ==
    LET me == h.back_state[pos + 1]
        cmp == (out = CpuLookup(emb_obj, v))
    IN  [h EXCEPT !.back_state[pos + 1].keys = @ \cup {"emb_obj_cpu", "input", "ref"},
                  !.back_state[pos + 1].emb_obj_cpu = emb_obj,
                  !.back_state[pos + 1].cmp = cmp,
                  !.stdout = IF cmp THEN @
                             ELSE Append(@, [msg |-> "cmp", site |-> <<me.fname, me.vname>>,
                                             n |-> pos])]

\* debug_embedding, lines 115-127: the two closures carry pos; one is
\* registered on the table's weight, the other on the lookup's output (the
\* tensor created by lookup number pos).
RegisterHooks(h, pos, emb_obj) ==
    [h EXCEPT !.back_state[pos + 1].keys = @ \cup {"hook_weight", "hook_out"},
              !.back_state[pos + 1].hook_weight = pos,
              !.back_state[pos + 1].hook_out = pos,
              !.weight_hooks[emb_obj] = Append(@, pos),
              !.out_hooks = Append(@, [tensor |-> pos, pos |-> pos])]

\* debug_embedding (lines 72-127). out is passed by reference: the field out
\* of the result is the tensor the caller goes on with.
\* pos is len(self.back_state) at line 91; lines 73-89 leave back_state as
\* it was on entry.
\* Variant: the harness hands the reference lookup back to the caller.
debug_embedding_patch(h, fname, vname, v, emb_obj, out) ==
    LET Rest(h1, pos) ==
            RegisterHooks(RefCheck(NewRecord(h1, fname, vname), pos, v,
                                   emb_obj, out),
                          pos, emb_obj)
    IN  [h |-> Rest(TrackLens(h, fname, vname, v), Len(h.back_state)),
         out |-> CpuLookup(emb_obj, v)]

\* As written: out is read, never written.
debug_embedding(h, fname, vname, v, emb_obj, out) ==
    LET Rest(h1, pos) ==
            RegisterHooks(RefCheck(NewRecord(h1, fname, vname), pos, v,
                                   emb_obj, out),
                          pos, emb_obj)
    IN  [h |-> Rest(TrackLens(h, fname, vname, v), Len(h.back_state)),
         out |-> out]

\* hook_out / hook_weight (lines 115-121), called by autograd with the
\* gradient of the tensor they are registered on.
\* Variant: the hook writes into the newest record, whatever pos it carries.
hook_out_last(bs, pos, grad) ==
    [bs EXCEPT ![Len(bs)].grad_out = grad, ![Len(bs)].keys = @ \cup {"grad_out"}]

\* self.back_state[pos]["grad_out"] = grad.cpu().detach()
hook_out(bs, pos, grad) ==
    [bs EXCEPT ![pos + 1].grad_out = grad, ![pos + 1].keys = @ \cup {"grad_out"}]

\* self.back_state[pos]["grad_weight"] = grad.cpu().detach()
hook_weight(bs, pos, grad) ==
    [bs EXCEPT ![pos + 1].grad_weight = grad, ![pos + 1].keys = @ \cup {"grad_weight"}]

\* --------------------------------------------------------------- log2feats
\* torch.BoolTensor(log_seqs == 0), line 151
TimelineMask(v) ==
    Tup([b \in 1..Len(v) |-> Tup([l \in 1..Len(v[b]) |-> v[b][l] = 0])])

\* seqs *= ~timeline_mask.unsqueeze(-1), lines 152 and 168
MaskOut(t, tm) ==
    Tup([b \in 1..Len(t) |->
        Tup([l \in 1..Len(t[b]) |->
            Tup([c \in 1..Len(t[b][l]) |->
                t[b][l][c] * (IF ~tm[b][l] THEN 1 ELSE 0)])])])

\* ~torch.tril(torch.ones((tl, tl), dtype=torch.bool)), line 155
\* Variant: the diagonal above the main one is allowed too.
AttentionMaskShifted(tl) ==
    Tup([i \in 1..tl |-> Tup([j \in 1..tl |-> ~(j <= i + 1)])])

\* As written: TRUE (disallowed) exactly above the main diagonal.
AttentionMask(tl) ==
    Tup([i \in 1..tl |-> Tup([j \in 1..tl |-> ~(j <= i)])])

\* np.tile(np.array(range(L)), [B, 1]), line 139
Positions(v) ==
    Tup([b \in 1..Len(v) |-> Tup([l \in 1..Len(v[b]) |-> l - 1])])

\* lines 131-137: the item lookup, the harness, the scaling
log2feats_item(h, v) ==
    LET Raised == [ok |-> FALSE, h |-> h, seqs |-> None]
        Scaled(d) == [ok |-> TRUE, h |-> d.h,
                      seqs |-> Scale3(d.out, ISqrt(hidden_units))]
        Indexed(r) == IF r.ok THEN Scaled([h |-> h, out |-> r.out]) ELSE Raised
        Called(r) ==
            IF r.ok
            THEN Scaled(debug_embedding(h, "log2feats", "log_seqs", v,
                                        "item_emb", r.out))
            ELSE Raised
    IN  IF nn_parameter THEN Indexed(ParameterIndex("item_emb", v))
        ELSE Called(EmbeddingCall("item_emb", v))

\* lines 139-149: the positional lookup, the harness, the sum, the dropout
\* (dropout_rate = 0)
log2feats_pos(h, v, s) ==
    LET Raised == [ok |-> FALSE, h |-> h, seqs |-> None]
        Added(d) == [ok |-> TRUE, h |-> d.h, seqs |-> Add3(s, d.out)]
        Indexed(r) == IF r.ok THEN Added([h |-> h, out |-> r.out]) ELSE Raised
        Called(positions, r) ==
            IF r.ok
            THEN Added(debug_embedding(h, "log2feats", "positions",
                                       positions, "pos_emb", r.out))
            ELSE Raised
    IN  IF nn_parameter THEN Indexed(ParameterIndex("pos_emb", Positions(v)))
        ELSE Called(Positions(v), EmbeddingCall("pos_emb", Positions(v)))

\* lines 158-168: one iteration of the loop over the blocks
\* Variant: without line 168.
BlockNoRezero(i, s, am, tm) ==
    LET t == Transpose01(s)
        Q == LayerNorm3(10 * i, t)
        mha == MultiheadAttention(10 * i, Q, t, t, am, None)
        u == Transpose01(Add3(Q, mha.out))
        f == PointWiseFeedForward(10 * i + 6, LayerNorm3(10 * i + 5, u))
    IN  [seqs |-> f, keys |-> mha.keys]

\* As written. The attention layer is given attn_mask only.
Block(i, s, am, tm) ==
    LET t == Transpose01(s)
        Q == LayerNorm3(10 * i, t)
        mha == MultiheadAttention(10 * i, Q, t, t, am, None)
        u == Transpose01(Add3(Q, mha.out))
        f == PointWiseFeedForward(10 * i + 6, LayerNorm3(10 * i + 5, u))
    IN  [seqs |-> MaskOut(f, tm), keys |-> mha.keys]

RECURSIVE Blocks(_, _, _, _)
Blocks(i, s, am, tm) ==
    IF i >= num_blocks THEN s ELSE Blocks(i + 1, Block(i, s, am, tm).seqs, am, tm)

\* self.last_layernorm(seqs), line 170
LastLayerNorm(s) == LayerNorm3(99, s)

\* lines 130-149: the two lookups with their harness calls; ok is FALSE
\* when a lookup raised IndexError
log2feats_embed(h, v) ==
    LET Then(a) == IF ~a.ok THEN a ELSE log2feats_pos(a.h, v, a.seqs)
    IN  Then(log2feats_item(h, v))

\* lines 151-171: the masks, the blocks and the last layer norm. Nothing in
\* here reads or writes the model object's state besides the weights.
Encoder(v, s) ==
    LET tm == TimelineMask(v)
        am == AttentionMask(Len(v[1]))
    IN  LastLayerNorm(Blocks(0, MaskOut(s, tm), am, tm))

\* log2feats (lines 130-171) as a whole
log2feats(h, v) ==
    LET Then(e) ==
            IF ~e.ok THEN [ok |-> FALSE, h |-> e.h, out |-> None]
            ELSE [ok |-> TRUE, h |-> e.h, out |-> Encoder(v, e.seqs)]
    IN  Then(log2feats_embed(h, v))

\* ----------------------------------------------------------- scoring heads
\* The heads' results (logits, features) go to the caller and are not kept
\* by the model object: forward and predict are modelled by what they do to
\* the object, and by whether they return or raise.
ItemLookup(v) ==
    IF nn_parameter THEN ParameterIndex("item_emb", v)
    ELSE EmbeddingCall("item_emb", v)

\* forward (lines 173-197)
\* Variant: without line 187.
forward_one_debug(h, v, pos_seqs, neg_seqs, mode) ==
    LET Heads(e, pe, ne) ==
            IF ~e.ok \/ mode = "log_only" THEN [ok |-> e.ok, h |-> e.h]
            ELSE IF ~pe.ok \/ ~ne.ok THEN [ok |-> FALSE, h |-> e.h]
            ELSE IF nn_parameter THEN [ok |-> TRUE, h |-> e.h]
            ELSE [ok |-> TRUE,
                  h |-> debug_embedding(e.h, "forward", "pos_seqs", pos_seqs,
                                        "item_emb", pe.out).h]
    IN  Heads(log2feats_embed(h, v), ItemLookup(pos_seqs), ItemLookup(neg_seqs))

\* Both lookups (lines 181-185) are made before either is handed to the
\* harness (lines 186-187).
forward(h, v, pos_seqs, neg_seqs, mode) ==
    LET Heads(e, pe, ne) ==
            IF ~e.ok \/ mode = "log_only" THEN [ok |-> e.ok, h |-> e.h]
            ELSE IF ~pe.ok \/ ~ne.ok THEN [ok |-> FALSE, h |-> e.h]
            ELSE IF nn_parameter THEN [ok |-> TRUE, h |-> e.h]
            ELSE [ok |-> TRUE,
                  h |-> debug_embedding(
                            debug_embedding(e.h, "forward", "pos_seqs",
                                            pos_seqs, "item_emb", pe.out).h,
                            "forward", "neg_seqs", neg_seqs, "item_emb",
                            ne.out).h]
    IN  Heads(log2feats_embed(h, v), ItemLookup(pos_seqs), ItemLookup(neg_seqs))

\* predict (lines 199-213)
predict(h, v, item_indices) ==
    LET Head1(e, ie) ==
            IF ~e.ok \/ ~ie.ok THEN [ok |-> FALSE, h |-> e.h]
            ELSE IF nn_parameter THEN [ok |-> TRUE, h |-> e.h]
            ELSE [ok |-> TRUE,
                  h |-> debug_embedding(e.h, "predict", "item_indices",
                                        item_indices, "item_emb", ie.out).h]
    IN  Head1(log2feats_embed(h, v), ItemLookup(item_indices))

\* ---------------------------------------------------------------- backward
\* loss.backward() on the latest graph: autograd calls the hooks registered
\* on the graph's lookup outputs, then the hooks registered on the two
\* tables' weights (by every call so far: the weights outlive the graph).
\* A gradient is kept as the name of the tensor it is the gradient of.
RECURSIVE FireOut(_, _)
FireOut(bs, hooks) ==
    IF hooks = <<>> THEN bs
    ELSE FireOut(hook_out(bs, Head(hooks).pos,
                          [kind |-> "out", tensor |-> Head(hooks).tensor,
                           param |-> "none"]),
                 Tail(hooks))

RECURSIVE FireWeight(_, _, _)
FireWeight(bs, emb, hooks) ==
    IF hooks = <<>> THEN bs
    ELSE FireWeight(hook_weight(bs, Head(hooks),
                                [kind |-> "weight", tensor |-> -1,
                                 param |-> emb]),
                    emb, Tail(hooks))

backward(h) ==
    LET b1 == FireOut(h.back_state, h.out_hooks)
        b2 == FireWeight(b1, "item_emb", h.weight_hooks.item_emb)
    IN  FireWeight(b2, "pos_emb", h.weight_hooks.pos_emb)

\* ------------------------------------------------------------ construction
\* torch.nn.MultiheadAttention.__init__ asserts that embed_dim is divisible
\* by num_heads (lines 61-63)
MultiheadAttentionInit(embed_dim, heads) == embed_dim % heads = 0

\* SASRec.__init__ (lines 24-70): succeeds when every block's layers can be
\* built
SASRecInit ==
    \A i \in 1..num_blocks : MultiheadAttentionInit(hidden_units, num_heads)

\* ------------------------------------------------------------------ inputs
HiddenChoices == {4}
HeadChoices == {1, 2, 3}
Modes == {"default", "log_only", "item"}

\* a row of real items, optionally left-padded with id 0
EncRows == UNION {[1..L -> 0..ItemNum] : L \in 1..MaxLen}

\* a batch of B rows: the row itself, then the row with its items shifted
Batch(row, B) ==
    Tup([b \in 1..B |-> Tup([l \in 1..Len(row) |->
            IF row[l] \in 0..ItemNum THEN (row[l] + b - 1) % (ItemNum + 1)
            ELSE row[l]])])

EncBatches == {Batch(row, B) : row \in EncRows, B \in 1..MaxBatch}

\* ids in and out of the table's range, on both sides
IdSamples == {-1, ItemNum, ItemNum + 1}

\* a left-padded row whose last item is x
PadRow(L, x) == Tup([l \in 1..L |-> IF l = L THEN x ELSE 0])

\* batches of full-length rows and of rows one longer than maxlen
CallBatches ==
    {Tup([b \in 1..B |-> PadRow(L, x)]) :
        L \in {MaxLen, MaxLen + 1}, x \in IdSamples, B \in 1..MaxBatch}

\* a (B, L) tensor filled with one id
Fill(v, id) == Tup([b \in 1..Len(v) |-> Tup([l \in 1..Len(v[b]) |-> id])])

OutOfRange(S) == {id \in S : id \notin 0..ItemNum}

\* the entry points are tried on inputs with at most one defect: an id out
\* of range in one argument, or sequences that are too long
Defects(v, ids) ==
    Cardinality(OutOfRange(Ids(v))) + Cardinality(OutOfRange(ids))
      + (IF Len(v[1]) > MaxLen THEN 1 ELSE 0)

\* The outcome of the latest call: ret.ok is whether it returned, ret.base
\* the length of back_state when it began, ret.bad the out-of-range ids it
\* was given, ret.long whether its sequences are longer than maxlen,
\* ret.graph whether its result awaits a backward pass.
NoCall == [op |-> "none", mode |-> "none", ok |-> TRUE, base |-> 0, bad |-> {},
           long |-> FALSE, graph |-> FALSE]

SetHarness(h) ==
    /\ back_state' = h.back_state
    /\ attrs' = h.attrs
    /\ weight_hooks' = h.weight_hooks
    /\ out_hooks' = h.out_hooks
    /\ stdout' = h.stdout

\* a call starts a new autograd graph
NewGraph == [Harness EXCEPT !.out_hooks = <<>>]

\* ------------------------------------------------------------------ actions
TypeInit ==
    /\ nn_parameter \in BOOLEAN
    /\ num_blocks \in 0..MaxBlocks
    /\ back_state = <<>>
    /\ attrs = <<>>
    /\ weight_hooks = [item_emb |-> <<>>, pos_emb |-> <<>>]
    /\ out_hooks = <<>>
    /\ stdout = <<>>
    /\ pc = "idle"
    /\ log_seqs = <<>>
    /\ seqs = <<>>
    /\ timeline_mask = <<>>
    /\ attention_mask = <<>>
    /\ blk = 0
    /\ attended = <<>>
    /\ log_feats = <<>>
    /\ ncalls = 0
    /\ ret = NoCall

Init ==
    /\ built = "new"
    /\ hidden_units \in HiddenChoices
    /\ num_heads \in HeadChoices
    /\ dev_exact = TRUE
    /\ TypeInit

\* model = SASRec(user_num, item_num, args)
Construct ==
    /\ built = "new"
    /\ built' = IF SASRecInit THEN "ok" ELSE "failed"
    /\ SetHarness(EmptyHarness)
    /\ UNCHANGED <<cfgVars, encVars, ncalls, ret>>

CanCall == built = "ok" /\ pc = "idle" /\ ncalls < MaxCalls

\* an entry point returns or raises: r.h is what the call did to the
\* harness, r.ok whether it returned
Return(r, op, mode, bad, long) ==
    /\ SetHarness(r.h)
    /\ ret' = [op |-> op, mode |-> mode, ok |-> r.ok,
               base |-> Len(back_state), bad |-> bad, long |-> long,
               graph |-> r.ok]

\* model.log2feats(log_seqs). Lines 151-171 work on locals only, so what
\* the call leaves behind is what its two lookups leave behind.
CallLog2feats ==
    /\ CanCall
    /\ \E v \in CallBatches :
        /\ Defects(v, {}) <= 1
        /\ Return(log2feats_embed(NewGraph, v), "log2feats", "none",
                  OutOfRange(Ids(v)), Len(v[1]) > MaxLen)
    /\ ncalls' = ncalls + 1
    /\ UNCHANGED <<built, cfgVars, encVars>>

\* model(user_ids, log_seqs, pos_seqs, neg_seqs, mode)
CallForward ==
    /\ CanCall
    /\ \E v \in CallBatches, p \in IdSamples, n \in IdSamples, mode \in Modes :
        /\ Defects(v, {p, n}) <= 1
        /\ Return(forward(NewGraph, v, Fill(v, p), Fill(v, n), mode),
                  "forward", mode,
                  OutOfRange(Ids(v) \cup
                      (IF mode = "log_only" THEN {} ELSE {p, n})),
                  Len(v[1]) > MaxLen)
    /\ ncalls' = ncalls + 1
    /\ UNCHANGED <<built, cfgVars, encVars>>

\* model.predict(user_ids, log_seqs, item_indices)
CallPredict ==
    /\ CanCall
    /\ \E v \in CallBatches, x \in IdSamples :
        /\ Defects(v, {x}) <= 1
        /\ Return(predict(NewGraph, v, Fill(v, x)), "predict", "none",
                  OutOfRange(Ids(v) \cup {x}), Len(v[1]) > MaxLen)
    /\ ncalls' = ncalls + 1
    /\ UNCHANGED <<built, cfgVars, encVars>>

\* the caller runs the backward pass of the latest call's result
Backward ==
    /\ built = "ok" /\ pc = "idle"
    /\ ret.graph
    /\ back_state' = backward(Harness)
    /\ ret' = [ret EXCEPT !.graph = FALSE]
    /\ UNCHANGED <<built, cfgVars, encVars, attrs, weight_hooks, out_hooks,
                   stdout, ncalls>>

Next ==
    \/ Construct
    \/ CallLog2feats
    \/ CallForward
    \/ CallPredict
    \/ Backward

Spec == Init /\ [][Next]_vars

\* ------------------------------------------- log2feats, statement by statement
\* The configurations of a constructed model. The device's gather can only
\* be seen to differ where the harness runs.
InitEnc ==
    /\ built = "ok"
    /\ hidden_units \in HiddenChoices
    /\ num_heads \in HeadChoices
    /\ dev_exact \in BOOLEAN
    /\ TypeInit
    /\ SASRecInit
    /\ nn_parameter => dev_exact

\* model.log2feats(log_seqs) is entered: a new autograd graph, fresh locals
EncCall ==
    /\ built = "ok" /\ pc \in {"idle", "done"} /\ ncalls < MaxCalls
    /\ \E v \in EncBatches : log_seqs' = v
    /\ pc' = "item"
    /\ seqs' = <<>>
    /\ timeline_mask' = <<>>
    /\ attention_mask' = <<>>
    /\ blk' = 0
    /\ attended' = <<>>
    /\ log_feats' = <<>>
    /\ out_hooks' = <<>>
    /\ ncalls' = ncalls + 1
    /\ ret' = [NoCall EXCEPT !.op = "log2feats", !.base = Len(back_state)]
    /\ UNCHANGED <<built, cfgVars, back_state, attrs, weight_hooks, stdout>>

\* an IndexError leaves log2feats
Raise ==
    /\ pc' = "idle"
    /\ ret' = [ret EXCEPT !.ok = FALSE]
    /\ UNCHANGED seqs

\* lines 131-137
EncItemEmb ==
    /\ pc = "item"
    /\ LET r == log2feats_item(Harness, log_seqs)
       IN  /\ SetHarness(r.h)
           /\ IF r.ok
              THEN seqs' = r.seqs /\ pc' = "pos" /\ UNCHANGED ret
              ELSE Raise
    /\ UNCHANGED <<built, cfgVars, log_seqs, timeline_mask, attention_mask,
                   blk, attended, log_feats, ncalls>>

\* lines 139-149
EncPosEmb ==
    /\ pc = "pos"
    /\ LET r == log2feats_pos(Harness, log_seqs, seqs)
       IN  /\ SetHarness(r.h)
           /\ IF r.ok
              THEN seqs' = r.seqs /\ pc' = "mask" /\ UNCHANGED ret
              ELSE Raise
    /\ UNCHANGED <<built, cfgVars, log_seqs, timeline_mask, attention_mask,
                   blk, attended, log_feats, ncalls>>

\* lines 151-155
EncMask ==
    /\ pc = "mask"
    /\ timeline_mask' = TimelineMask(log_seqs)
    /\ seqs' = MaskOut(seqs, TimelineMask(log_seqs))
    /\ attention_mask' = AttentionMask(Len(seqs[1]))
    /\ blk' = 0
    /\ pc' = "loop"
    /\ UNCHANGED <<built, cfgVars, harnessVars, log_seqs, attended, log_feats,
                   ncalls, ret>>

\* lines 157-168: iteration blk of the loop
EncBlock ==
    /\ pc = "loop" /\ blk < num_blocks
    /\ LET r == Block(blk, seqs, attention_mask, timeline_mask)
       IN  /\ seqs' = r.seqs
           /\ attended' = Append(attended, r.keys)
    /\ blk' = blk + 1
    /\ UNCHANGED <<built, cfgVars, harnessVars, pc, log_seqs, timeline_mask,
                   attention_mask, log_feats, ncalls, ret>>

\* lines 170-171
EncReturn ==
    /\ pc = "loop" /\ blk = num_blocks
    /\ log_feats' = LastLayerNorm(seqs)
    /\ pc' = "done"
    /\ ret' = [ret EXCEPT !.graph = TRUE]
    /\ UNCHANGED <<built, cfgVars, harnessVars, log_seqs, seqs, timeline_mask,
                   attention_mask, blk, attended, ncalls>>

NextEnc ==
    \/ EncCall
    \/ EncItemEmb
    \/ EncPosEmb
    \/ EncMask
    \/ EncBlock
    \/ EncReturn
    \/ CallForward
    \/ CallPredict

SpecEnc == InitEnc /\ [][NextEnc]_vars

\* ------------------------------------------------------------- properties
\* log2feats (lines 130-171) with the calls of debug_embedding left out
PlainLog2feats(v) ==
    LET it == ItemLookup(v).out
        positions == Positions(v)
        po == IF nn_parameter THEN ParameterIndex("pos_emb", positions).out
              ELSE EmbeddingCall("pos_emb", positions).out
    IN  Encoder(v, Add3(Scale3(it, ISqrt(hidden_units)), po))

\* w has the shape of v and the same ids at the positions 1 .. i
AgreeUpTo(w, v, i) ==
    /\ Len(w) = Len(v)
    /\ \A b \in 1..Len(v) :
        /\ Len(w[b]) = Len(v[b])
        /\ \A l \in 1..i : w[b][l] = v[b][l]

\* the batches that differ from v, and only after the first position
Perturbed(v) == {w \in EncBatches : w # v /\ AgreeUpTo(w, v, 1)}

IsZero(x) == \A c \in 1..Len(x) : x[c] = 0

\* C1: the mask built by a call disallows key j for query i exactly when
\* j > i and is the one every block reads, and the output at position i of
\* a finished call equals the output at position i of a call on any input
\* that agrees with this one at the positions up to i.
C1_Causal ==
    /\ pc \in {"loop", "done"} =>
        /\ Len(attention_mask) = Len(log_seqs[1])
        /\ \A i \in 1..Len(attention_mask) :
            /\ Len(attention_mask[i]) = Len(log_seqs[1])
            /\ \A j \in 1..Len(attention_mask) : attention_mask[i][j] = (j > i)
    /\ pc = "done" =>
        \A w \in Perturbed(log_seqs) :
            LET other == log2feats(EmptyHarness, w).out
            IN  \A i \in 1..Len(log_seqs[1]) :
                    AgreeUpTo(w, log_seqs, i) =>
                        \A b \in 1..Len(log_seqs) : other[b][i] = log_feats[b][i]

\* a finished call through at least one block whose output at the last
\* position changes when the last item is changed
C1_Witness ==
    /\ pc = "done" /\ num_blocks >= 1 /\ Len(log_seqs[1]) >= 2
    /\ \E w \in Perturbed(log_seqs) :
        /\ AgreeUpTo(w, log_seqs, Len(log_seqs[1]) - 1)
        /\ log2feats(EmptyHarness, w).out[1][Len(log_seqs[1])]
             # log_feats[1][Len(log_seqs[1])]

\* C2: wherever the loop over the blocks, or the last layer norm, reads
\* seqs (after the first masking and after every iteration), the vector at
\* every position whose item id is 0 is all zero.
C2_PaddingZero ==
    pc = "loop" =>
        \A b \in 1..Len(log_seqs) : \A l \in 1..Len(log_seqs[b]) :
            log_seqs[b][l] = 0 => IsZero(seqs[b][l])

\* after an iteration, a row with a padding position and a position that
\* is not zero
C2_Witness ==
    /\ pc = "loop" /\ blk >= 1
    /\ \E b \in 1..Len(log_seqs) :
        /\ \E l \in 1..Len(log_seqs[b]) : log_seqs[b][l] = 0
        /\ \E l \in 1..Len(log_seqs[b]) : ~IsZero(seqs[b][l])

\* C3: in every block, the keys that receive attention weight for a query
\* at a position that is not padding include no padding position.
C3_PaddingNotAttended ==
    \A k \in 1..Len(attended) :
        \A b \in 1..Len(log_seqs) : \A i \in 1..Len(log_seqs[b]) :
            log_seqs[b][i] # 0 =>
                \A j \in attended[k][b][i] : log_seqs[b][j] # 0

\* C4: whatever the harness holds from earlier calls and whatever it
\* reported, the output of a finished call is the output of the pipeline
\* without the harness on the same log_seqs: a function of log_seqs and the
\* weights alone.
C4_Pure == pc = "done" => log_feats = PlainLog2feats(log_seqs)

\* a finished call with the harness running, after an earlier call, with a
\* mismatch reported for one of its own lookups
C4_Witness ==
    /\ pc = "done" /\ ~nn_parameter /\ ret.base > 0
    /\ \E k \in (ret.base + 1)..Len(back_state) : ~back_state[k].cmp

\* the embedding lookups of a call that returns
Lookups(op, mode) ==
    IF op = "log2feats" \/ (op = "forward" /\ mode = "log_only") THEN 2
    ELSE IF op = "forward" THEN 4
    ELSE IF op = "predict" THEN 3
    ELSE 0

\* the table a call-site looks up
TableOf(vname) == IF vname = "positions" THEN "pos_emb" ELSE "item_emb"

\* what identifies a record: the lookup that made it and what that call of
\* debug_embedding stored in it
Made(r) == [fname |-> r.fname, vname |-> r.vname,
            emb_obj_cpu |-> r.emb_obj_cpu, cmp |-> r.cmp,
            hook_weight |-> r.hook_weight, hook_out |-> r.hook_out]

\* C5 as stated: after a call, back_state holds no more than the records
\* of that call.
C5_SinglePass ==
    (pc = "idle" /\ ret.op # "none") =>
        Len(back_state) <= Lookups(ret.op, ret.mode)

\* C5: a call discards no record. Every record stays in back_state at its
\* index, as its lookup made it, through every later call and backward
\* pass; the records of a call are appended after those of all earlier
\* calls.
C5_Retained ==
    [][/\ Len(back_state') >= Len(back_state)
       /\ \A k \in 1..Len(back_state) :
            Made(back_state'[k]) = Made(back_state[k])]_vars

\* after the second call, the records of the first call and of the second
C5_Witness ==
    /\ ncalls = 2 /\ ret.ok /\ ret.base > 0
    /\ Len(back_state) = ret.base + Lookups(ret.op, ret.mode)
    /\ back_state[1].fname = "log2feats"

\* C6: with nn_parameter on, back_state stays empty. With nn_parameter
\* off its length never decreases, and a call that returns adds one record
\* per embedding lookup: 2 for log2feats, 2 for forward in log_only mode, 4
\* for forward in default or item mode, 3 for predict.
C6_Growth ==
    [][/\ Len(back_state') >= Len(back_state)
       /\ nn_parameter => back_state' = <<>>
       /\ (~nn_parameter /\ ncalls' = ncalls + 1 /\ ret'.ok) =>
            Len(back_state') = Len(back_state) + Lookups(ret'.op, ret'.mode)
      ]_vars

\* a forward call in item mode that added 4 records to those of a predict
\* call
C6_Witness ==
    /\ ~nn_parameter /\ ret.op = "forward" /\ ret.mode = "item" /\ ret.ok
    /\ ret.base = 3 /\ Len(back_state) = 7

\* C7 as stated: only the first record of a call-site holds the CPU
\* duplicate and the recomputed lookup.
C7_FirstOnly ==
    \A k \in 1..Len(back_state) :
        "ref" \in back_state[k].keys =>
            \A m \in 1..(k - 1) :
                <<back_state[m].fname, back_state[m].vname>>
                    # <<back_state[k].fname, back_state[k].vname>>

\* C7: every call of debug_embedding builds the CPU duplicate of its
\* table, recomputes the lookup and compares: every record holds them.
\* Only the printing of the shapes is kept to the first observation of a
\* call-site.
C7_EveryLookup ==
    /\ \A k \in 1..Len(back_state) :
        /\ {"emb_obj_cpu", "input", "ref"} \subseteq back_state[k].keys
        /\ back_state[k].emb_obj_cpu = TableOf(back_state[k].vname)
    /\ \A site \in DOMAIN attrs :
        Cardinality({m \in 1..Len(stdout) :
            stdout[m].msg = "shape" /\ stdout[m].site = site}) = 1

\* two lookups from the same call-site, in two calls, both checked
C7_Witness ==
    \E k \in 1..Len(back_state) : \E m \in 1..(k - 1) :
        /\ back_state[m].fname = back_state[k].fname
        /\ back_state[m].vname = back_state[k].vname
        /\ "ref" \in back_state[m].keys
        /\ "ref" \in back_state[k].keys

\* C8: no model exists whose hidden_units is not divisible by num_heads,
\* and no call is made on one.
C8_Rejected ==
    (built = "ok" \/ ncalls > 0) => hidden_units % num_heads = 0

\* C9: a call that is given an id outside the table's range, or sequences
\* longer than maxlen, raises.
C9_HardFailure ==
    (ret.bad # {} \/ ret.long) => ~ret.ok

\* C10: every hook carries the index of the record made by the call of
\* debug_embedding that registered it, that index is inside back_state, and
\* a record's grad_out (grad_weight) is the gradient of the output (of the
\* table) of the record's own lookup, written by the record's own hook:
\* after the backward pass of a call every record of that call holds both.
C10_HookBinding ==
    /\ \A k \in 1..Len(back_state) :
        LET r == back_state[k]
        IN  /\ r.hook_out = k - 1 /\ r.hook_weight = k - 1
            /\ "grad_out" \in r.keys =>
                r.grad_out = [kind |-> "out", tensor |-> k - 1, param |-> "none"]
            /\ "grad_out" \notin r.keys => r.grad_out = NoGrad
            /\ "grad_weight" \in r.keys =>
                r.grad_weight = [kind |-> "weight", tensor |-> -1,
                                 param |-> TableOf(r.vname)]
            /\ "grad_weight" \notin r.keys => r.grad_weight = NoGrad
    /\ \A m \in 1..Len(out_hooks) :
        out_hooks[m].pos < Len(back_state) /\ out_hooks[m].pos = out_hooks[m].tensor
    /\ (ret.op # "none" /\ ret.ok /\ ~ret.graph) =>
        \A k \in (ret.base + 1)..Len(back_state) :
            {"grad_out", "grad_weight"} \subseteq back_state[k].keys
    /\ \A emb \in DOMAIN weight_hooks : \A m \in 1..Len(weight_hooks[emb]) :
        /\ weight_hooks[emb][m] < Len(back_state)
        /\ TableOf(back_state[weight_hooks[emb][m] + 1].vname) = emb

\* two calls, each followed by its backward pass: the gradients of both
\* calls' outputs are in their own records
C10_Witness ==
    /\ ncalls = 2 /\ ret.base > 0 /\ Len(back_state) > ret.base
    /\ "grad_out" \in back_state[1].keys
    /\ "grad_out" \in back_state[Len(back_state)].keys
    /\ "grad_weight" \in back_state[1].keys

====
